---------------------------- MODULE Spec2Model ----------------------------
(***************************************************************************)
(* Model of the service supervisor of package exithandler                  *)
(* (src/exithandler/service.go, lines 1-166: WrapServices with a           *)
(* notification sink).  One supervision run is modelled: the main          *)
(* goroutine executing WrapServices, the signal-listener goroutine, and    *)
(* for every service a start-unit and a stop-unit launched on an           *)
(* errgroup.Group.  Service.Start, Service.Stop, the notification sink and *)
(* the operating system (signal delivery) are the environment.             *)
(***************************************************************************)
EXTENDS Integers, Sequences, FiniteSets, TLC

(***************************************************************************)
(* Bounds of the model.                                                    *)
(***************************************************************************)
MaxServices == 2

\* most keys of a .env file
MaxEnvKeys == 2

\* most commands in cfg.Prepare
MaxPrepare == 2

\* most files in cfg.Files
MaxFiles == 1

(***************************************************************************)
(* Values.                                                                 *)
(***************************************************************************)
\* a nil error / a nil os.Signal / "WrapServices has not returned yet"
Nil == "nil"
NoSignal == "none"
NotReturned == "not returned"

\* var errDone = errors.New("done")
errDone == "done"

\* var stopSignals = []os.Signal{SIGHUP, SIGINT, SIGTERM, SIGQUIT}
stopSignals == {"hangup", "interrupt", "terminated", "quit"}

\* the signals raised in the model: SIGINT and SIGTERM
SignalInputs == {"interrupt", "terminated"}

\* syscall.SIGTERM, printed by %s as "terminated"
SIGTERM == "terminated"

\* serv.Name(): the services of a run carry distinct names
Name(i) == "S" \o ToString(i)

\* the non-nil error a service's Start, resp. Stop, may return
StartError(i) == "start error of " \o Name(i)
StopError(i) == "stop error of " \o Name(i)

\* the non-nil error the notification sink may return
SinkError == "sink error"

VARIABLES
    N,            \* len(services)
    shouldNotify, \* the flag passed to WrapServices
    mainPc,       \* position of the goroutine running WrapServices
    subscribed,   \* signal.Notify(sigs, ...) in effect, signal.Stop not yet
    sigs,         \* the channel sigs (capacity 1)
    listenerPc,   \* position of the signal-listener goroutine
    caughtSignal, \* var caughtSignal os.Signal
    mainCancelled,  \* mainCtx is cancelled
    groupCancelled, \* svcGroupCtx is cancelled
    groupErr,     \* the errgroup's first error (errOnce)
    startPc,      \* position of every start-unit
    startErr,     \* err of every start-unit
    stopPc,       \* position of every stop-unit
    stopErr,      \* err of every stop-unit
    startCalls,   \* number of invocations of serv.Start
    stopCalls,    \* number of invocations of serv.Stop
    stopCtxLive,  \* some Stop was handed a context that was not cancelled
    notifyErr,    \* the buffered channel notifyErr: its buffer
    closed,       \* notifyErr is closed
    drained,      \* the records the consumer has read from notifyErr
    firstErr,     \* firstErr := svcGroup.Wait()
    reason,       \* the shutdown reason
    notifyCalls,  \* the reasons the sink was invoked with, in order
    notifiedErr,  \* notifiedErr := notify(reason)
    ret,          \* the value returned by WrapServices
    systemdRestart, \* isSystemdRestart := caughtSignal == syscall.SIGTERM
    trigger       \* what cancelled svcGroupCtx first

\* package deploy: ValidateDeploymentEnv
VARIABLES
    localEnv,     \* the parsed local .env_<x> file
    remoteEnv,    \* the parsed remote .env file
    envErr,       \* the error of fetching, reading or parsing the two files
    validateRet   \* the value returned by ValidateDeploymentEnv

\* package deploy: Deploy
VARIABLES
    cfg,          \* the Config passed to Deploy
    commands,     \* commands := deployCommands(cfg)
    deployPc,     \* position of the goroutine running Deploy
    ran,          \* the commands run so far, in order, with their outcome
    deployErr,    \* err := deploy(cfg, commands)
    deployRet,    \* the value returned by Deploy
    successCalls, \* the results of the invocations of cfg.Success
    errorCalls    \* the arguments and results of the invocations of cfg.Error

svcVars == <<N, shouldNotify, mainPc, subscribed, sigs, listenerPc,
             caughtSignal, mainCancelled, groupCancelled, groupErr, startPc,
             startErr, stopPc, stopErr, startCalls, stopCalls, stopCtxLive,
             notifyErr, closed, drained, firstErr, reason, notifyCalls,
             notifiedErr, ret, systemdRestart, trigger>>

envVars == <<localEnv, remoteEnv, envErr, validateRet>>

deployVars == <<cfg, commands, deployPc, ran, deployErr, deployRet,
                successCalls, errorCalls>>

vars == <<svcVars, envVars, deployVars>>

Services == 1..N

\* sigs := make(chan os.Signal, 1)
SigsCap == 1

\* variant of NotifyErrCap: one slot short of two per service
NotifyErrCap_OneShort == N * 2 - 1

\* variant of NotifyErrCap: one slot per service
NotifyErrCap_Single == N

\* make(chan stopNotif, len(services)*2)
NotifyErrCap == N * 2

\* variant of CtxDone: the stop-unit does not wait for the cancellation
CtxDone_NoWait == TRUE

\* <-svcGroupCtx.Done() can proceed
CtxDone == groupCancelled

\* variant of AllUnitsReturned: the join waits for the stop-units only
AllUnitsReturned_StopsOnly ==
    \A i \in Services : stopPc[i] = "done"

\* variant of AllUnitsReturned: the join waits for the start-units only
AllUnitsReturned_StartsOnly ==
    \A i \in Services : startPc[i] = "done"

\* variant of AllUnitsReturned: the join is taken only once the context is
\* cancelled
AllUnitsReturned_AfterCancel ==
    /\ groupCancelled
    /\ \A i \in Services : startPc[i] = "done" /\ stopPc[i] = "done"

\* svcGroup.Wait() can proceed: every function passed to Go has returned
AllUnitsReturned ==
    \A i \in Services : startPc[i] = "done" /\ stopPc[i] = "done"

\* variant of StartUnitResult: a nil err is returned as it is
StartUnitResult_NoSentinel(err) == err

\* what the start-unit returns to the group
StartUnitResult(err) == IF err = Nil THEN errDone ELSE err

\* errgroup.Group.Go: a unit returned r; the first non-nil r is kept
\* (errOnce) and cancels the group's context
GroupErrAfter(r) == IF r # Nil /\ groupErr = Nil THEN r ELSE groupErr

GroupCancelledAfter(r) == groupCancelled \/ (r # Nil /\ groupErr = Nil)

\* the first cancellation of svcGroupCtx is the trigger of the shutdown:
\* "signal" (the listener's cancel), "service" (a unit returned a non-nil
\* value to the group) or "join" (the cancel inside Wait)
TriggerAfter(cause, cancels) ==
    IF ~groupCancelled /\ cancels THEN cause ELSE trigger

\* the withError text of a start-unit, resp. stop-unit
StartReason(err) ==
    IF err # Nil THEN "finished with error" ELSE "finished without error"

StopReason(err) ==
    IF err # Nil THEN "stopped with error" ELSE "stopped without error"

\* type stopNotif struct
StopNotif(err, service, why) == [err |-> err, service |-> service, reason |-> why]

\* variant of NotifLine: the error text is left out
NotifLine_NoErr(nr) == nr.service \o ": " \o nr.reason \o "\n"

\* one iteration of the loop of buildShutdownMessage
NotifLine(nr) ==
    IF nr.err # Nil
        THEN nr.service \o ": " \o nr.reason \o " " \o nr.err \o "\n"
        ELSE nr.service \o ": " \o nr.reason \o "\n"

\* variant of buildShutdownMessage: the lines are put in reverse order
RECURSIVE buildShutdownMessage_Reversed(_)
buildShutdownMessage_Reversed(ch) ==
    IF ch = <<>> THEN ""
    ELSE buildShutdownMessage_Reversed(Tail(ch)) \o NotifLine(Head(ch))

RECURSIVE buildShutdownMessage(_)
buildShutdownMessage(ch) ==
    IF ch = <<>> THEN ""
    ELSE NotifLine(Head(ch)) \o buildShutdownMessage(Tail(ch))

\* variant of ShutdownReason: a caught signal does not override the message
ShutdownReason_NoOverride(ch, sig) == buildShutdownMessage(ch)

\* reason as computed by lines 69-72
ShutdownReason(ch, sig) ==
    IF sig # NoSignal
        THEN "process caught signal: " \o sig
        ELSE buildShutdownMessage(ch)

\* isSystemdRestart := caughtSignal == syscall.SIGTERM
isSystemdRestart(sig) == sig = SIGTERM

\* variant of WillNotify: the restart signal does not silence the sink
WillNotify_IgnoresRestart(flag, sig) == flag

\* variant of WillNotify: the flag does not silence the sink
WillNotify_IgnoresFlag(flag, sig) == ~isSystemdRestart(sig)

\* the condition of line 77
WillNotify(flag, sig) == flag /\ ~isSystemdRestart(sig)

\* variant of ReturnValue: return the group's first real error, wrapped
ReturnValue_Wrapped ==
    IF firstErr \in {Nil, errDone}
       THEN Nil
       ELSE "failed to shutdown services: " \o firstErr

\* variant of ReturnValue: return notifiedErr
ReturnValue_SinkErr == notifiedErr

\* variant of ReturnValue: return firstErr
ReturnValue_FirstErr == firstErr

\* return nil
ReturnValue == Nil

(***************************************************************************)
(* Initial state: WrapServices is about to be called with N services and   *)
(* a flag.                                                                 *)
(***************************************************************************)
\* no environment validation is in progress
EnvIdle ==
    /\ localEnv = <<>>
    /\ remoteEnv = <<>>
    /\ envErr = Nil
    /\ validateRet = NotReturned

\* no deployment is in progress
DeployIdle ==
    /\ cfg = [Env |-> "test", Prepare |-> <<>>, Files |-> <<>>,
              Success |-> FALSE, Error |-> FALSE]
    /\ commands = <<>>
    /\ deployPc = "idle"
    /\ ran = <<>>
    /\ deployErr = Nil
    /\ deployRet = NotReturned
    /\ successCalls = <<>>
    /\ errorCalls = <<>>

\* WrapServices is about to be called with N services
SvcInit ==
    /\ N \in 0..MaxServices
    /\ shouldNotify \in BOOLEAN
    /\ mainPc = "entry"
    /\ subscribed = FALSE
    /\ sigs = <<>>
    /\ listenerPc = "unborn"
    /\ caughtSignal = NoSignal
    /\ mainCancelled = FALSE
    /\ groupCancelled = FALSE
    /\ groupErr = Nil
    /\ startPc = [i \in Services |-> "unborn"]
    /\ startErr = [i \in Services |-> Nil]
    /\ stopPc = [i \in Services |-> "unborn"]
    /\ stopErr = [i \in Services |-> Nil]
    /\ startCalls = [i \in Services |-> 0]
    /\ stopCalls = [i \in Services |-> 0]
    /\ stopCtxLive = FALSE
    /\ notifyErr = <<>>
    /\ closed = FALSE
    /\ drained = <<>>
    /\ firstErr = Nil
    /\ reason = ""
    /\ notifyCalls = <<>>
    /\ notifiedErr = Nil
    /\ ret = NotReturned
    /\ systemdRestart = FALSE
    /\ trigger = "none"

Init == SvcInit /\ EnvIdle /\ DeployIdle

(***************************************************************************)
(* The main goroutine: WrapServices.                                       *)
(***************************************************************************)
\* lines 42-60: subscribe to the signals, create mainCtx, spawn the
\* listener, allocate notifyErr and launch both units of every service
WrapServicesEnter ==
    /\ mainPc = "entry"
    /\ mainPc' = "waiting"
    /\ subscribed' = TRUE
    /\ listenerPc' = "receiving"
    /\ startPc' = [i \in Services |-> "ready"]
    /\ stopPc' = [i \in Services |-> "waiting"]
    /\ UNCHANGED <<envVars, deployVars, N, shouldNotify, sigs, caughtSignal, mainCancelled,
                   groupCancelled, groupErr, startErr, stopErr, startCalls,
                   stopCalls, stopCtxLive, notifyErr, closed, drained,
                   firstErr, reason, notifyCalls, notifiedErr, ret,
                   systemdRestart, trigger>>

\* line 63: firstErr := svcGroup.Wait(); Wait cancels the group's context
WrapServicesWait ==
    /\ mainPc = "waiting"
    /\ AllUnitsReturned
    /\ mainPc' = "joined"
    /\ firstErr' = groupErr
    /\ groupCancelled' = TRUE
    /\ trigger' = TriggerAfter("join", TRUE)
    /\ UNCHANGED <<envVars, deployVars, N, shouldNotify, subscribed, sigs, listenerPc,
                   caughtSignal, mainCancelled, groupErr, startPc, startErr,
                   stopPc, stopErr, startCalls, stopCalls, stopCtxLive,
                   notifyErr, closed, drained, reason, notifyCalls,
                   notifiedErr, ret, systemdRestart>>

\* line 67: close(notifyErr)
WrapServicesClose ==
    /\ mainPc = "joined"
    /\ mainPc' = "closed"
    /\ closed' = TRUE
    /\ UNCHANGED <<envVars, deployVars, N, shouldNotify, subscribed, sigs, listenerPc,
                   caughtSignal, mainCancelled, groupCancelled, groupErr,
                   startPc, startErr, stopPc, stopErr, startCalls, stopCalls,
                   stopCtxLive, notifyErr, drained, firstErr, reason,
                   notifyCalls, notifiedErr, ret, systemdRestart, trigger>>

\* lines 50-54 against lines 63-76: the listener's write of caughtSignal is
\* ordered before the main goroutine's reads only through the listener's own
\* cancel(), and only when that cancel() was the first cancellation of
\* svcGroupCtx: the order then runs through the units or the group's join.
\* A write made after svcGroupCtx was cancelled by somebody else shares no
\* synchronisation with the main goroutine.
WriteOrderedBeforeReads == trigger = "signal"

\* lines 70 and 76: what a read of caughtSignal can return. An unordered read
\* that follows the write in time may still return the value from before it.
CaughtSignalRead ==
    IF caughtSignal # NoSignal /\ ~WriteOrderedBeforeReads
       THEN {NoSignal, caughtSignal}
       ELSE {caughtSignal}

\* lines 69-72: drain the closed channel into the message, then let a caught
\* signal override it
WrapServicesReason ==
    /\ mainPc = "closed"
    /\ mainPc' = "reasoned"
    /\ drained' = notifyErr
    /\ notifyErr' = <<>>
    /\ \E sig \in CaughtSignalRead :
          reason' = ShutdownReason(notifyErr, sig)
    /\ UNCHANGED <<envVars, deployVars, N, shouldNotify, subscribed, sigs, listenerPc,
                   caughtSignal, mainCancelled, groupCancelled, groupErr,
                   startPc, startErr, stopPc, stopErr, startCalls, stopCalls,
                   stopCtxLive, closed, firstErr, notifyCalls, notifiedErr,
                   ret, systemdRestart, trigger>>

\* variant of WrapServicesNotify: the sink is invoked once per record
WrapServicesNotify_PerRecord ==
    /\ mainPc = "reasoned"
    /\ mainPc' = "notified"
    /\ \E sig \in CaughtSignalRead :
          /\ IF WillNotify(shouldNotify, sig)
                THEN /\ notifyCalls' = notifyCalls \o [k \in 1..Len(drained) |-> reason]
                     /\ notifiedErr' \in {Nil, SinkError}
                ELSE UNCHANGED <<notifyCalls, notifiedErr>>
          /\ systemdRestart' = isSystemdRestart(sig)
    /\ UNCHANGED <<envVars, deployVars, N, shouldNotify, subscribed, sigs, listenerPc,
                   caughtSignal, mainCancelled, groupCancelled, groupErr,
                   startPc, startErr, stopPc, stopErr, startCalls, stopCalls,
                   stopCtxLive, notifyErr, closed, drained, firstErr, reason,
                   ret, trigger>>

\* lines 76-85: notify the sink unless silenced; the sink returns nil or an
\* error, which is only logged
WrapServicesNotify ==
    /\ mainPc = "reasoned"
    /\ mainPc' = "notified"
    /\ \E sig \in CaughtSignalRead :
          /\ IF WillNotify(shouldNotify, sig)
                THEN /\ notifyCalls' = Append(notifyCalls, reason)
                     /\ notifiedErr' \in {Nil, SinkError}
                ELSE UNCHANGED <<notifyCalls, notifiedErr>>
          /\ systemdRestart' = isSystemdRestart(sig)
    /\ UNCHANGED <<envVars, deployVars, N, shouldNotify, subscribed, sigs, listenerPc,
                   caughtSignal, mainCancelled, groupCancelled, groupErr,
                   startPc, startErr, stopPc, stopErr, startCalls, stopCalls,
                   stopCtxLive, notifyErr, closed, drained, firstErr, reason,
                   ret, trigger>>

\* variant of WrapServicesReturn: signal.Stop is not called
WrapServicesReturn_NoSignalStop ==
    /\ mainPc = "notified"
    /\ mainPc' = "returned"
    /\ ret' = ReturnValue
    /\ mainCancelled' = TRUE
    /\ groupCancelled' = TRUE
    /\ subscribed' = subscribed
    /\ UNCHANGED <<envVars, deployVars, N, shouldNotify, sigs, listenerPc, caughtSignal, groupErr,
                   startPc, startErr, stopPc, stopErr, startCalls, stopCalls,
                   stopCtxLive, notifyErr, closed, drained, firstErr, reason,
                   notifyCalls, notifiedErr, systemdRestart, trigger>>

\* line 89 and the deferred calls of lines 47 and 44: cancel(), signal.Stop
WrapServicesReturn ==
    /\ mainPc = "notified"
    /\ mainPc' = "returned"
    /\ ret' = ReturnValue
    /\ mainCancelled' = TRUE
    /\ groupCancelled' = TRUE
    /\ subscribed' = FALSE
    /\ UNCHANGED <<envVars, deployVars, N, shouldNotify, sigs, listenerPc, caughtSignal, groupErr,
                   startPc, startErr, stopPc, stopErr, startCalls, stopCalls,
                   stopCtxLive, notifyErr, closed, drained, firstErr, reason,
                   notifyCalls, notifiedErr, systemdRestart, trigger>>

(***************************************************************************)
(* The process is alive: no goroutine has panicked.                        *)
(***************************************************************************)
Alive == mainPc # "panicked"

\* ch <- v on the buffered channel notifyErr can proceed (a send on a closed
\* channel proceeds, by panicking)
CanSend == closed \/ Len(notifyErr) < NotifyErrCap

(***************************************************************************)
(* The start-unit of service i (lines 105-128).                            *)
(***************************************************************************)
\* line 107: serv.Start() is invoked
StartCall(i) ==
    /\ Alive
    /\ startPc[i] = "ready"
    /\ startPc' = [startPc EXCEPT ![i] = "starting"]
    /\ startCalls' = [startCalls EXCEPT ![i] = @ + 1]
    /\ UNCHANGED <<envVars, deployVars, N, shouldNotify, mainPc, subscribed, sigs, listenerPc,
                   caughtSignal, mainCancelled, groupCancelled, groupErr,
                   startErr, stopPc, stopErr, stopCalls, stopCtxLive,
                   notifyErr, closed, drained, firstErr, reason, notifyCalls,
                   notifiedErr, ret, systemdRestart, trigger>>

\* line 107: serv.Start() returns err, nil or an error
StartReturn(i, err) ==
    /\ Alive
    /\ startPc[i] = "starting"
    /\ startPc' = [startPc EXCEPT ![i] = "returned"]
    /\ startErr' = [startErr EXCEPT ![i] = err]
    /\ UNCHANGED <<envVars, deployVars, N, shouldNotify, mainPc, subscribed, sigs, listenerPc,
                   caughtSignal, mainCancelled, groupCancelled, groupErr,
                   stopPc, stopErr, startCalls, stopCalls, stopCtxLive,
                   notifyErr, closed, drained, firstErr, reason, notifyCalls,
                   notifiedErr, ret, systemdRestart, trigger>>

\* variant of StartSend: only a failed Start is reported
StartSend_ErrorsOnly(i) ==
    /\ Alive
    /\ startPc[i] = "returned"
    /\ CanSend
    /\ IF closed
          THEN /\ mainPc' = "panicked"
               /\ UNCHANGED <<startPc, notifyErr>>
          ELSE /\ startPc' = [startPc EXCEPT ![i] = "sent"]
               /\ notifyErr' =
                      IF startErr[i] = Nil THEN notifyErr
                      ELSE Append(notifyErr, StopNotif(startErr[i], Name(i),
                                                      StartReason(startErr[i])))
               /\ UNCHANGED mainPc
    /\ UNCHANGED <<envVars, deployVars, N, shouldNotify, subscribed, sigs, listenerPc,
                   caughtSignal, mainCancelled, groupCancelled, groupErr,
                   startErr, stopPc, stopErr, startCalls, stopCalls,
                   stopCtxLive, closed, drained, firstErr, reason,
                   notifyCalls, notifiedErr, ret, systemdRestart, trigger>>

\* lines 110-118: notifyErr <- stopNotif{err, name, withError}
StartSend(i) ==
    /\ Alive
    /\ startPc[i] = "returned"
    /\ CanSend
    /\ IF closed
          THEN /\ mainPc' = "panicked"
               /\ UNCHANGED <<startPc, notifyErr>>
          ELSE /\ startPc' = [startPc EXCEPT ![i] = "sent"]
               /\ notifyErr' = Append(notifyErr,
                      StopNotif(startErr[i], Name(i), StartReason(startErr[i])))
               /\ UNCHANGED mainPc
    /\ UNCHANGED <<envVars, deployVars, N, shouldNotify, subscribed, sigs, listenerPc,
                   caughtSignal, mainCancelled, groupCancelled, groupErr,
                   startErr, stopPc, stopErr, startCalls, stopCalls,
                   stopCtxLive, closed, drained, firstErr, reason,
                   notifyCalls, notifiedErr, ret, systemdRestart, trigger>>

\* variant of StartExit: a failed service is started once more
StartExit_Restart(i) ==
    /\ Alive
    /\ startPc[i] = "sent"
    /\ startPc' = [startPc EXCEPT ![i] =
                      IF startErr[i] # Nil /\ startCalls[i] < 2 THEN "ready" ELSE "done"]
    /\ groupErr' = GroupErrAfter(StartUnitResult(startErr[i]))
    /\ groupCancelled' = GroupCancelledAfter(StartUnitResult(startErr[i]))
    /\ trigger' = TriggerAfter("service", StartUnitResult(startErr[i]) # Nil)
    /\ UNCHANGED <<envVars, deployVars, N, shouldNotify, mainPc, subscribed, sigs, listenerPc,
                   caughtSignal, mainCancelled, startErr, stopPc, stopErr,
                   startCalls, stopCalls, stopCtxLive, notifyErr, closed,
                   drained, firstErr, reason, notifyCalls, notifiedErr, ret,
                   systemdRestart>>

\* lines 123-127: the unit returns errDone or err to the group
StartExit(i) ==
    /\ Alive
    /\ startPc[i] = "sent"
    /\ startPc' = [startPc EXCEPT ![i] = "done"]
    /\ groupErr' = GroupErrAfter(StartUnitResult(startErr[i]))
    /\ groupCancelled' = GroupCancelledAfter(StartUnitResult(startErr[i]))
    /\ trigger' = TriggerAfter("service", StartUnitResult(startErr[i]) # Nil)
    /\ UNCHANGED <<envVars, deployVars, N, shouldNotify, mainPc, subscribed, sigs, listenerPc,
                   caughtSignal, mainCancelled, startErr, stopPc, stopErr,
                   startCalls, stopCalls, stopCtxLive, notifyErr, closed,
                   drained, firstErr, reason, notifyCalls, notifiedErr, ret,
                   systemdRestart>>

(***************************************************************************)
(* The stop-unit of service i (lines 133-153).                             *)
(***************************************************************************)
\* variant of StopCall: the unit goes back to waiting on the context
StopCall_Repeating(i) ==
    /\ Alive
    /\ stopPc[i] = "waiting"
    /\ CtxDone
    /\ stopPc' = [stopPc EXCEPT ![i] = "waiting"]
    /\ stopCalls' = [stopCalls EXCEPT ![i] = @ + 1]
    /\ stopCtxLive' = (stopCtxLive \/ ~groupCancelled)
    /\ UNCHANGED <<envVars, deployVars, N, shouldNotify, mainPc, subscribed, sigs, listenerPc,
                   caughtSignal, mainCancelled, groupCancelled, groupErr,
                   startPc, startErr, stopErr, startCalls, notifyErr, closed,
                   drained, firstErr, reason, notifyCalls, notifiedErr, ret,
                   systemdRestart, trigger>>

\* lines 137-139: <-svcGroupCtx.Done(), then serv.Stop(svcGroupCtx) is invoked
StopCall(i) ==
    /\ Alive
    /\ stopPc[i] = "waiting"
    /\ CtxDone
    /\ stopPc' = [stopPc EXCEPT ![i] = "stopping"]
    /\ stopCalls' = [stopCalls EXCEPT ![i] = @ + 1]
    /\ stopCtxLive' = (stopCtxLive \/ ~groupCancelled)
    /\ UNCHANGED <<envVars, deployVars, N, shouldNotify, mainPc, subscribed, sigs, listenerPc,
                   caughtSignal, mainCancelled, groupCancelled, groupErr,
                   startPc, startErr, stopErr, startCalls, notifyErr, closed,
                   drained, firstErr, reason, notifyCalls, notifiedErr, ret,
                   systemdRestart, trigger>>

\* line 139: serv.Stop(svcGroupCtx) returns err, nil or an error
StopReturn(i, err) ==
    /\ Alive
    /\ stopPc[i] = "stopping"
    /\ stopPc' = [stopPc EXCEPT ![i] = "returned"]
    /\ stopErr' = [stopErr EXCEPT ![i] = err]
    /\ UNCHANGED <<envVars, deployVars, N, shouldNotify, mainPc, subscribed, sigs, listenerPc,
                   caughtSignal, mainCancelled, groupCancelled, groupErr,
                   startPc, startErr, startCalls, stopCalls, stopCtxLive,
                   notifyErr, closed, drained, firstErr, reason, notifyCalls,
                   notifiedErr, ret, systemdRestart, trigger>>

\* lines 142-150: notifyErr <- stopNotif{name, withError, err}
StopSend(i) ==
    /\ Alive
    /\ stopPc[i] = "returned"
    /\ CanSend
    /\ IF closed
          THEN /\ mainPc' = "panicked"
               /\ UNCHANGED <<stopPc, notifyErr>>
          ELSE /\ stopPc' = [stopPc EXCEPT ![i] = "sent"]
               /\ notifyErr' = Append(notifyErr,
                      StopNotif(stopErr[i], Name(i), StopReason(stopErr[i])))
               /\ UNCHANGED mainPc
    /\ UNCHANGED <<envVars, deployVars, N, shouldNotify, subscribed, sigs, listenerPc,
                   caughtSignal, mainCancelled, groupCancelled, groupErr,
                   startPc, startErr, stopErr, startCalls, stopCalls,
                   stopCtxLive, closed, drained, firstErr, reason,
                   notifyCalls, notifiedErr, ret, systemdRestart, trigger>>

\* line 152: the unit returns err to the group
StopExit(i) ==
    /\ Alive
    /\ stopPc[i] = "sent"
    /\ stopPc' = [stopPc EXCEPT ![i] = "done"]
    /\ groupErr' = GroupErrAfter(stopErr[i])
    /\ groupCancelled' = GroupCancelledAfter(stopErr[i])
    /\ trigger' = TriggerAfter("service", stopErr[i] # Nil)
    /\ UNCHANGED <<envVars, deployVars, N, shouldNotify, mainPc, subscribed, sigs, listenerPc,
                   caughtSignal, mainCancelled, startPc, startErr, stopErr,
                   startCalls, stopCalls, stopCtxLive, notifyErr, closed,
                   drained, firstErr, reason, notifyCalls, notifiedErr, ret,
                   systemdRestart>>

(***************************************************************************)
(* The operating system and the signal-listener goroutine (lines 50-54).   *)
(***************************************************************************)
\* a signal of stopSignals is raised while the subscription is in effect:
\* os/signal sends it to sigs without blocking, dropping it if sigs is full
SignalArrive(sig) ==
    /\ Alive
    /\ subscribed
    /\ sigs' = IF Len(sigs) < SigsCap THEN Append(sigs, sig) ELSE sigs
    /\ UNCHANGED <<envVars, deployVars, N, shouldNotify, mainPc, subscribed, listenerPc,
                   caughtSignal, mainCancelled, groupCancelled, groupErr,
                   startPc, startErr, stopPc, stopErr, startCalls, stopCalls,
                   stopCtxLive, notifyErr, closed, drained, firstErr, reason,
                   notifyCalls, notifiedErr, ret, systemdRestart, trigger>>

\* line 51: caughtSignal = <-sigs
ListenerReceive ==
    /\ Alive
    /\ listenerPc = "receiving"
    /\ sigs # <<>>
    /\ caughtSignal' = Head(sigs)
    /\ sigs' = Tail(sigs)
    /\ listenerPc' = "caught"
    /\ UNCHANGED <<envVars, deployVars, N, shouldNotify, mainPc, subscribed, mainCancelled,
                   groupCancelled, groupErr, startPc, startErr, stopPc,
                   stopErr, startCalls, stopCalls, stopCtxLive, notifyErr,
                   closed, drained, firstErr, reason, notifyCalls,
                   notifiedErr, ret, systemdRestart, trigger>>

\* line 53: cancel() of mainCtx, which cancels the derived svcGroupCtx
ListenerCancel ==
    /\ Alive
    /\ listenerPc = "caught"
    /\ listenerPc' = "done"
    /\ mainCancelled' = TRUE
    /\ groupCancelled' = TRUE
    /\ trigger' = TriggerAfter("signal", TRUE)
    /\ UNCHANGED <<envVars, deployVars, N, shouldNotify, mainPc, subscribed, sigs, caughtSignal,
                   groupErr, startPc, startErr, stopPc, stopErr, startCalls,
                   stopCalls, stopCtxLive, notifyErr, closed, drained,
                   firstErr, reason, notifyCalls, notifiedErr, ret,
                   systemdRestart>>

Next ==
    \/ WrapServicesEnter
    \/ WrapServicesWait
    \/ WrapServicesClose
    \/ WrapServicesReason
    \/ WrapServicesNotify
    \/ WrapServicesReturn
    \/ \E i \in Services : StartCall(i)
    \/ \E i \in Services : \E err \in {Nil, StartError(i)} : StartReturn(i, err)
    \/ \E i \in Services : StartSend(i)
    \/ \E i \in Services : StartExit(i)
    \/ \E i \in Services : StopCall(i)
    \/ \E i \in Services : \E err \in {Nil, StopError(i)} : StopReturn(i, err)
    \/ \E i \in Services : StopSend(i)
    \/ \E i \in Services : StopExit(i)
    \/ \E sig \in SignalInputs : SignalArrive(sig)
    \/ ListenerReceive
    \/ ListenerCancel

Spec == Init /\ [][Next]_vars

(***************************************************************************)
(* Late signals: the runs in which no signal is raised before a unit's     *)
(* return has cancelled svcGroupCtx.                                       *)
(***************************************************************************)
LateSignalArrive(sig) ==
    /\ trigger = "service"
    /\ SignalArrive(sig)

LateNext ==
    \/ WrapServicesEnter
    \/ WrapServicesWait
    \/ WrapServicesClose
    \/ WrapServicesReason
    \/ WrapServicesNotify
    \/ WrapServicesReturn
    \/ \E i \in Services : StartCall(i)
    \/ \E i \in Services : \E err \in {Nil, StartError(i)} : StartReturn(i, err)
    \/ \E i \in Services : StartSend(i)
    \/ \E i \in Services : StartExit(i)
    \/ \E i \in Services : StopCall(i)
    \/ \E i \in Services : \E err \in {Nil, StopError(i)} : StopReturn(i, err)
    \/ \E i \in Services : StopSend(i)
    \/ \E i \in Services : StopExit(i)
    \/ \E sig \in SignalInputs : LateSignalArrive(sig)
    \/ ListenerReceive
    \/ ListenerCancel

LateSpec == Init /\ [][LateNext]_vars

(***************************************************************************)
(* Scheduling: every goroutine that can take a step eventually takes it.   *)
(* Nothing is assumed of the environment: Start and Stop need not return,  *)
(* no signal need be raised.                                               *)
(***************************************************************************)
MainStep ==
    \/ WrapServicesEnter
    \/ WrapServicesWait
    \/ WrapServicesClose
    \/ WrapServicesReason
    \/ WrapServicesNotify
    \/ WrapServicesReturn

Scheduling ==
    /\ WF_vars(MainStep)
    /\ WF_vars(ListenerReceive)
    /\ WF_vars(ListenerCancel)
    /\ \A i \in 1..MaxServices :
        /\ WF_vars(i \in Services /\ StartCall(i))
        /\ WF_vars(i \in Services /\ StartSend(i))
        /\ WF_vars(i \in Services /\ StartExit(i))
        /\ WF_vars(i \in Services /\ StopCall(i))
        /\ WF_vars(i \in Services /\ StopSend(i))
        /\ WF_vars(i \in Services /\ StopExit(i))

FairSpec == Spec /\ Scheduling

(***************************************************************************)
(* Cooperative services: Stop always returns, and Start returns once the   *)
(* service's Stop has been invoked.                                        *)
(***************************************************************************)
Cooperative ==
    \A i \in 1..MaxServices :
        /\ WF_vars(i \in Services /\ \E err \in {Nil, StopError(i)} :
                                        StopReturn(i, err))
        /\ WF_vars(i \in Services /\ stopCalls[i] > 0
                   /\ \E err \in {Nil, StartError(i)} : StartReturn(i, err))

CoopSpec == Spec /\ Scheduling /\ Cooperative

(***************************************************************************)
(* Package deploy: ValidateDeploymentEnv.                                  *)
(* A parsed .env file is a map from keys to values: a function whose       *)
(* domain is the set of keys present in the file.                          *)
(***************************************************************************)
EnvKeys == {"K" \o ToString(i) : i \in 1..MaxEnvKeys}

\* a key may be present with an empty value
EnvValues == {"", "1"}

EnvMaps == UNION {[D -> EnvValues] : D \in SUBSET EnvKeys}

\* the error of ssh, of os.ReadFile or of godotenv.Parse
EnvReadError == "exit status 255"

\* first loop of diffEnvs: local keys the remote file does not have
remoteMissing(local, remote) ==
    {name \in DOMAIN local : name \notin DOMAIN remote}

\* first loop of diffEnvs: local keys the remote file has with another value
remoteMismatch(local, remote) ==
    {name \in DOMAIN local :
        name \in DOMAIN remote /\ remote[name] # local[name]}

\* second loop of diffEnvs: remote keys the local file does not have
localMissing(local, remote) ==
    {name \in DOMAIN remote : name \notin DOMAIN local}

\* second loop of diffEnvs: remote keys the local file has with another value
localMismatch(local, remote) ==
    {name \in DOMAIN remote :
        name \in DOMAIN local /\ local[name] # remote[name]}

\* variant of diffCount: only the loop over the local file counts
diffCount_LocalLoop(local, remote) ==
    Cardinality(remoteMissing(local, remote))
        + Cardinality(remoteMismatch(local, remote))

\* diffCount := len(localMissing) + len(localMismatch) + len(remoteMissing)
\*              + len(remoteMismatch)
diffCount(local, remote) ==
    Cardinality(localMissing(local, remote))
        + Cardinality(localMismatch(local, remote))
        + Cardinality(remoteMissing(local, remote))
        + Cardinality(remoteMismatch(local, remote))

\* return diffCount == 0
diffEnvs(local, remote) == diffCount(local, remote) = 0

\* ValidateEnv: (false, err) if a file cannot be fetched, read or parsed,
\* (diffEnvs(...), nil) otherwise
ValidateEnv(local, remote, err) ==
    IF err # Nil
       THEN [valid |-> FALSE, err |-> err]
       ELSE [valid |-> diffEnvs(local, remote), err |-> Nil]

\* envFile := fmt.Sprintf(".env_%s", cfg.Env)
envFile == ".env_" \o cfg.Env

\* ValidateDeploymentEnv, as a whole
ValidateDeploymentEnv ==
    /\ validateRet = NotReturned
    /\ LET res == ValidateEnv(localEnv, remoteEnv, envErr)
       IN  validateRet' =
               IF res.err # Nil
                  THEN "failed to diff env files: " \o res.err
                  ELSE IF ~res.valid
                          THEN envFile \o " does not match remote .env"
                          ELSE Nil
    /\ UNCHANGED <<svcVars, deployVars, localEnv, remoteEnv, envErr>>

\* WrapServices is not running
SvcIdle == SvcInit /\ N = 0 /\ shouldNotify = FALSE

EnvInit ==
    /\ SvcIdle
    /\ DeployIdle
    /\ localEnv \in EnvMaps
    /\ remoteEnv \in EnvMaps
    /\ envErr \in {Nil, EnvReadError}
    /\ validateRet = NotReturned

EnvNext == ValidateDeploymentEnv

EnvSpec == EnvInit /\ [][EnvNext]_vars

(***************************************************************************)
(* Package deploy: Deploy.                                                 *)
(* A Command is a record of its Name, its Cmd, its IgnoreFailed flag and   *)
(* whether its Func is set; cfg.Success and cfg.Error are kept as whether  *)
(* they are set. What a command or a callback returns is chosen when it    *)
(* runs.                                                                   *)
(***************************************************************************)
\* the error of a failing Func, resp. of sh.RunV
FuncError == "func failed"
ShellError == "exit status 1"

\* the non-nil error cfg.Success, resp. cfg.Error, may return
SuccessError == "success callback failed"
ErrorError == "error callback failed"

\* the k-th command of cfg.Prepare
PrepareCommand(k, func, ignore) ==
    [Name |-> "prepare " \o ToString(k),
     Cmd |-> IF func THEN "" ELSE "ssh",
     IgnoreFailed |-> ignore,
     Func |-> func]

PrepareLists ==
    UNION {{[k \in 1..n |-> PrepareCommand(k, f[k].func, f[k].ignore)] :
               f \in [1..n -> [func : BOOLEAN, ignore : BOOLEAN]]} :
           n \in 0..MaxPrepare}

\* cfg.Files: one entry with up to MaxFiles files
FileLists == {[k \in 1..n |-> "file" \o ToString(k)] : n \in 0..MaxFiles}

Configs ==
    [Env : {"test"}, Prepare : PrepareLists, Files : FileLists,
     Success : BOOLEAN, Error : BOOLEAN]

\* a built-in command of deployCommands
BuiltIn(name, cmd, ignore) ==
    [Name |-> name, Cmd |-> cmd, IgnoreFailed |-> ignore, Func |-> FALSE]

prepareCommands ==
    <<BuiltIn("create project dir in home", "ssh", FALSE),
      BuiltIn("copy .env file to remote", "scp", FALSE)>>

copyCommands(c) ==
    [k \in 1..Len(c.Files) |-> BuiltIn("copy " \o c.Files[k], "scp", FALSE)]

startCommands ==
    <<BuiltIn("killing existing service and wait for it to die", "ssh", TRUE),
      BuiltIn("copy binary to remote", "scp", FALSE),
      BuiltIn("symlink latest.log to current log file", "ssh", FALSE),
      BuiltIn("keep only the 5 latest log files", "ssh", FALSE),
      BuiltIn("start service", "ssh", FALSE),
      BuiltIn("check service status", "ssh", FALSE)>>

\* allCommands: cfg.Prepare, then the built-in lists
deployCommands(c) ==
    c.Prepare \o prepareCommands \o copyCommands(c) \o startCommands

\* variant of FailureAborts: IgnoreFailed also covers a failing Func
FailureAborts_IgnoreFunc(cmd) == ~cmd.IgnoreFailed

\* deploy: a failing Func always ends the loop, a failing shell command
\* unless it has IgnoreFailed
FailureAborts(cmd) == cmd.Func \/ ~cmd.IgnoreFailed

\* fmt.Errorf("failed to run %s: %w", cmd.Name, err)
CommandError(cmd) ==
    "failed to run " \o cmd.Name \o ": "
        \o (IF cmd.Func THEN FuncError ELSE ShellError)

\* Deploy: commands := deployCommands(cfg), then deploy is entered
DeployEnter ==
    /\ deployPc = "entry"
    /\ deployPc' = "running"
    /\ commands' = deployCommands(cfg)
    /\ UNCHANGED <<svcVars, envVars, cfg, ran, deployErr, deployRet,
                   successCalls, errorCalls>>

\* deploy: one iteration of the loop over commands; the command fails or not
deployCommand ==
    /\ deployPc = "running"
    /\ Len(ran) < Len(commands)
    /\ LET k == Len(ran) + 1
           cmd == commands[k]
       IN  \E failed \in BOOLEAN :
               /\ ran' = Append(ran, [index |-> k, Name |-> cmd.Name,
                                      failed |-> failed])
               /\ IF failed /\ FailureAborts(cmd)
                     THEN /\ deployErr' = CommandError(cmd)
                          /\ deployPc' = "deployed"
                     ELSE UNCHANGED <<deployErr, deployPc>>
    /\ UNCHANGED <<svcVars, envVars, cfg, commands, deployRet, successCalls,
                   errorCalls>>

\* deploy: the loop is over, return nil
deployReturnNil ==
    /\ deployPc = "running"
    /\ Len(ran) = Len(commands)
    /\ deployPc' = "deployed"
    /\ deployErr' = Nil
    /\ UNCHANGED <<svcVars, envVars, cfg, commands, ran, deployRet,
                   successCalls, errorCalls>>

\* Deploy calls cfg.Error(err)
CallsError(err) == err # Nil /\ cfg.Error

\* variant of CallsSuccess: cfg.Success is called whatever deploy returned
CallsSuccess_Always(err) == cfg.Success

\* Deploy calls cfg.Success()
CallsSuccess(err) == err = Nil /\ cfg.Success

\* Deploy after deploy has returned: the callbacks and the return value
DeployReturn ==
    /\ deployPc = "deployed"
    /\ deployPc' = "returned"
    /\ \E onError \in {Nil, ErrorError} : \E onSuccess \in {Nil, SuccessError} :
           /\ errorCalls' =
                  IF CallsError(deployErr)
                     THEN Append(errorCalls,
                                 [err |-> deployErr, ret |-> onError])
                     ELSE errorCalls
           /\ successCalls' =
                  IF CallsSuccess(deployErr)
                     THEN Append(successCalls, [ret |-> onSuccess])
                     ELSE successCalls
           /\ deployRet' =
                  IF deployErr # Nil
                     THEN IF CallsError(deployErr) THEN onError ELSE deployErr
                     ELSE IF CallsSuccess(deployErr) THEN onSuccess ELSE Nil
    /\ UNCHANGED <<svcVars, envVars, cfg, commands, ran, deployErr>>

DeployInit ==
    /\ SvcIdle
    /\ EnvIdle
    /\ cfg \in Configs
    /\ commands = <<>>
    /\ deployPc = "entry"
    /\ ran = <<>>
    /\ deployErr = Nil
    /\ deployRet = NotReturned
    /\ successCalls = <<>>
    /\ errorCalls = <<>>

DeployNext ==
    \/ DeployEnter
    \/ deployCommand
    \/ deployReturnNil
    \/ DeployReturn

DeploySpec == DeployInit /\ [][DeployNext]_vars

(***************************************************************************)
(* Properties of a supervision run.                                        *)
(***************************************************************************)
Returned == mainPc = "returned"

\* serv.Start(), resp. serv.Stop(), of service i has returned
StartHasReturned(i) == startPc[i] \in {"returned", "sent", "done"}

StopHasReturned(i) == stopPc[i] \in {"returned", "sent", "done"}

\* a shutdown trigger has occurred: some Start has returned, or a stop
\* signal was received (it sits in sigs or the listener has taken it)
Triggered ==
    \/ \E i \in Services : StartHasReturned(i)
    \/ sigs # <<>>
    \/ caughtSignal # NoSignal

\* the errors returned by the services' Start, resp. Stop
StartErrors == {startErr[i] : i \in {j \in Services : StartHasReturned(j)}} \ {Nil}

StopErrors == {stopErr[i] : i \in {j \in Services : StopHasReturned(j)}} \ {Nil}

\* the records of ch pushed by the start-unit, resp. stop-unit, of service i
StartRecords(ch, i) ==
    {k \in 1..Len(ch) : /\ ch[k].service = Name(i)
                        /\ ch[k].reason = StartReason(ch[k].err)
                        /\ ch[k].err = startErr[i]}

StopRecords(ch, i) ==
    {k \in 1..Len(ch) : /\ ch[k].service = Name(i)
                        /\ ch[k].reason = StopReason(ch[k].err)
                        /\ ch[k].err = stopErr[i]}

\* ch holds exactly one record of every unit and nothing else
TwoRecordsPerService(ch) ==
    /\ Len(ch) = 2 * N
    /\ \A i \in Services : /\ Cardinality(StartRecords(ch, i)) = 1
                           /\ Cardinality(StopRecords(ch, i)) = 1

\* C1: WrapServices has returned only if, for every service, Start and Stop
\* have returned and the start-unit and the stop-unit have finished.
C1_ReturnsAfterAllUnits ==
    Returned =>
        \A i \in Services : /\ StartHasReturned(i) /\ StopHasReturned(i)
                            /\ startPc[i] = "done" /\ stopPc[i] = "done"

C1_Witness ==
    /\ Returned
    /\ N >= 2
    /\ \A i \in Services : stopPc[i] = "done" /\ stopCalls[i] = 1

\* C2: once some Start has returned (nil or an error) or a stop signal was
\* received, the group context eventually is cancelled and the Stop of every
\* service, the one whose Start returned included, has been invoked.
C2_TriggerLeadsToStops ==
    Triggered ~> (groupCancelled /\ \A i \in Services : stopCalls[i] >= 1)

C2_Witness ==
    /\ N >= 2
    /\ caughtSignal = NoSignal /\ sigs = <<>>
    /\ \E i \in Services : StartHasReturned(i) /\ startErr[i] = Nil
    /\ \A i \in Services : ~StartHasReturned(i) \/ startErr[i] = Nil
    /\ groupCancelled
    /\ \A i \in Services : stopCalls[i] >= 1

\* C3 (as claimed): if some Start returned a non-nil error, WrapServices
\* returns a non-nil error, namely the error of one of the failed Starts.
C3_StartErrorReturned ==
    (Returned /\ StartErrors # {}) => (ret # Nil /\ ret \in StartErrors)

\* C4: if no Start and no Stop returned an error, WrapServices returns nil;
\* errDone and the context's cancellation error are never returned.
C4_NilWithoutErrors ==
    /\ (Returned /\ StartErrors = {} /\ StopErrors = {}) => ret = Nil
    /\ ret \notin {errDone, "context canceled"}

C4_Witness ==
    /\ Returned
    /\ N >= 1
    /\ StartErrors = {} /\ StopErrors = {}
    /\ firstErr = errDone
    /\ caughtSignal = NoSignal

\* C5 (as claimed): if some Stop returned a non-nil error, WrapServices
\* returns a non-nil error that is not the sentinel errDone.
C5_StopErrorReturned ==
    (Returned /\ StopErrors # {}) => (ret # Nil /\ ret # errDone)

\* C6: the Stop of every service has been invoked at most once.
C6_StopAtMostOnce ==
    \A i \in Services : stopCalls[i] <= 1

C6_Witness ==
    /\ Returned
    /\ N >= 2
    /\ \A i \in Services : stopCalls[i] = 1
    /\ StartErrors # {} /\ StopErrors # {}
    /\ caughtSignal # NoSignal

\* C7: a Stop is invoked only when the group context is already cancelled,
\* and the context it is handed is that cancelled context.
C7_StopAfterCancel ==
    /\ ~stopCtxLive
    /\ \A i \in Services : stopCalls[i] > 0 => groupCancelled

C7_Witness ==
    /\ N >= 2
    /\ \E i \in Services : stopPc[i] = "stopping" /\ stopCalls[i] = 1
    /\ \E i \in Services : stopPc[i] = "waiting"
    /\ groupCancelled /\ ~stopCtxLive

\* C8: when the join is reached, exactly 2N records have been pushed to
\* notifyErr, for every service one of its start-unit and one of its
\* stop-unit; they are the records drained afterwards.
C8_TwoRecordsPerService ==
    /\ mainPc \in {"joined", "closed"} => TwoRecordsPerService(notifyErr)
    /\ mainPc \in {"reasoned", "notified", "returned"} =>
           TwoRecordsPerService(drained)

C8_Witness ==
    /\ mainPc = "joined"
    /\ N >= 2
    /\ Len(notifyErr) = 2 * N
    /\ \E i \in Services : startErr[i] = Nil
    /\ \E i \in Services : stopErr[i] # Nil

\* C9: with cooperative services and fair scheduling, WrapServices returns
\* after any trigger (the notification sink is assumed to return).
C9_TriggerLeadsToReturn ==
    Triggered ~> Returned

C9_Witness ==
    /\ Returned
    /\ N >= 2
    /\ caughtSignal # NoSignal
    /\ \A i \in Services : startCalls[i] = 1 /\ stopCalls[i] = 1

\* C10: with zero services every step of WrapServices is enabled without any
\* signal or other event, and it returns nil.
C10_EmptyRunReturns ==
    /\ [](N = 0 /\ ~Returned => ENABLED MainStep)
    /\ (N = 0) ~> (Returned /\ ret = Nil)

C10_Witness ==
    /\ N = 0
    /\ Returned /\ ret = Nil
    /\ caughtSignal = NoSignal /\ sigs = <<>>

\* the main goroutine has computed the reason, resp. has passed the
\* notification of lines 76-85
ReasonComputed == mainPc \in {"reasoned", "notified", "returned"}

NotifyPassed == mainPc \in {"notified", "returned"}

\* the sink has been invoked
SinkInvoked == notifyCalls # <<>>

\* the message of line 71 for signal sig
SignalReason(sig) == "process caught signal: " \o sig

\* C11: if a termination signal X was the trigger of the shutdown, the
\* reason, and the text handed to the sink, is exactly
\* "process caught signal: X", not the message folded from the records.
C11_SignalReasonOverrides ==
    (ReasonComputed /\ trigger = "signal") =>
        /\ caughtSignal \in stopSignals
        /\ reason = SignalReason(caughtSignal)
        /\ \A k \in 1..Len(notifyCalls) :
               notifyCalls[k] = SignalReason(caughtSignal)

C11_Witness ==
    /\ trigger = "signal"
    /\ N >= 1
    /\ SinkInvoked
    /\ notifyCalls[1] = SignalReason("interrupt")
    /\ Len(drained) = 2 * N
    /\ \E i \in Services : startErr[i] # Nil

C13_RestartSilencesSink ==
    /\ (NotifyPassed /\ systemdRestart) => ~SinkInvoked
    /\ (NotifyPassed /\ trigger = "signal" /\ caughtSignal = SIGTERM) =>
           systemdRestart
    /\ (Returned /\ systemdRestart) =>
           /\ ret = Nil
           /\ \A i \in Services : StopHasReturned(i) /\ stopPc[i] = "done"

C13_Witness ==
    /\ Returned
    /\ N >= 2
    /\ shouldNotify
    /\ trigger = "signal" /\ caughtSignal = SIGTERM
    /\ ~SinkInvoked

C15_SinkErrorNotReturned ==
    (Returned /\ notifiedErr # Nil) => (ret = Nil /\ ret # notifiedErr)

C15_Witness ==
    /\ Returned
    /\ N >= 1
    /\ SinkInvoked
    /\ notifiedErr = SinkError
    /\ StartErrors # {}

\* text e occurs in text t
Contains(t, e) ==
    \E k \in 1..(Len(t) - Len(e) + 1) : SubSeq(t, k, k + Len(e) - 1) = e

\* text t is a caught-signal message
IsSignalReason(t) ==
    /\ Len(t) >= Len(SignalReason(""))
    /\ SubSeq(t, 1, Len(SignalReason(""))) = SignalReason("")

\* C16 (as claimed): whenever the sink is invoked, the text it receives
\* contains every non-nil error returned by a Start or a Stop of the run.
C16_ReasonHasAllErrors ==
    \A k \in 1..Len(notifyCalls) :
        \A e \in StartErrors \cup StopErrors : Contains(notifyCalls[k], e)

\* C16 (amended): whenever the sink is invoked with a text that is not the
\* caught-signal message, as it is when no signal has been caught, the text
\* contains every non-nil error returned by a Start or a Stop of the run.
C16_FoldedReasonHasAllErrors ==
    \A k \in 1..Len(notifyCalls) :
        /\ caughtSignal = NoSignal => ~IsSignalReason(notifyCalls[k])
        /\ ~IsSignalReason(notifyCalls[k]) =>
               \A e \in StartErrors \cup StopErrors :
                   Contains(notifyCalls[k], e)

C16_Witness ==
    /\ SinkInvoked
    /\ N >= 2
    /\ caughtSignal = NoSignal
    /\ \A i \in Services : startErr[i] # Nil
    /\ \E i \in Services : stopErr[i] # Nil

\* the line the claim prescribes for record r of the channel
C17_Line(r) ==
    IF r.reason \in {"finished without error", "finished with error"}
    THEN IF r.err = Nil
         THEN r.service \o ": finished without error\n"
         ELSE r.service \o ": finished with error " \o r.err \o "\n"
    ELSE IF r.err = Nil
         THEN r.service \o ": stopped without error\n"
         ELSE r.service \o ": stopped with error " \o r.err \o "\n"

RECURSIVE C17_Text(_)
C17_Text(ch) ==
    IF ch = <<>> THEN "" ELSE C17_Line(Head(ch)) \o C17_Text(Tail(ch))

\* C17: when no signal was caught, the text handed to the sink is one line
\* per outcome record, "<service>: finished|stopped without error" or
\* "<service>: finished|stopped with error <err>", in the order in which the
\* records were pushed; there is one record per unit, carrying the unit's
\* result.
C17_ReasonLinesInPushOrder ==
    \A k \in 1..Len(notifyCalls) :
        caughtSignal = NoSignal =>
            /\ notifyCalls[k] = C17_Text(drained)
            /\ TwoRecordsPerService(drained)

C17_Witness ==
    /\ SinkInvoked
    /\ N >= 2
    /\ caughtSignal = NoSignal
    /\ drained[1].service = Name(2)
    /\ drained[2].service = Name(1)
    /\ drained[1].err = Nil /\ drained[2].err # Nil

\* C18: the sink is invoked only after every Start and every Stop has
\* returned, all 2N units have finished, and the channel has been closed and
\* drained of its 2N records.
C18_NotifyAfterJoin ==
    SinkInvoked =>
        /\ \A i \in Services : /\ StartHasReturned(i) /\ startPc[i] = "done"
                               /\ StopHasReturned(i) /\ stopPc[i] = "done"
        /\ NotifyPassed
        /\ closed /\ notifyErr = <<>>
        /\ Len(drained) = 2 * N

C18_Witness ==
    /\ mainPc = "notified"
    /\ SinkInvoked
    /\ N >= 2
    /\ trigger = "signal"

\* C19: the signals are intercepted exactly while WrapServices runs: once it
\* has returned the subscription is released and no signal can be delivered
\* to sigs any more.
C19_SubscriptionReleased ==
    /\ mainPc = "entry" => ~subscribed
    /\ mainPc \in {"waiting", "joined", "closed", "reasoned", "notified"} =>
           subscribed
    /\ Returned =>
           /\ ~subscribed
           /\ ~ENABLED (\E sig \in SignalInputs : SignalArrive(sig))

C19_Witness ==
    /\ Returned
    /\ N >= 1
    /\ ~subscribed
    /\ caughtSignal = NoSignal /\ sigs = <<>>

\* C20: the Start of every service is invoked at most once, never again once
\* it has returned, with or without an error, and exactly once in a run that
\* reaches the join.
C20_StartExactlyOnce ==
    \A i \in Services :
        /\ startCalls[i] <= 1
        /\ StartHasReturned(i) => startCalls[i] = 1
        /\ mainPc \in {"joined", "closed", "reasoned", "notified", "returned"}
               => startCalls[i] = 1

C20_Witness ==
    /\ Returned
    /\ N >= 2
    /\ \A i \in Services : startCalls[i] = 1
    /\ \E i \in Services : startErr[i] # Nil
    /\ \E i \in Services : startErr[i] = Nil

\* the two parsed files differ: some key is present on one side only, or
\* present on both sides with different values
EnvsDiffer ==
    \E name \in EnvKeys :
        \/ (name \in DOMAIN localEnv) # (name \in DOMAIN remoteEnv)
        \/ /\ name \in DOMAIN localEnv
           /\ name \in DOMAIN remoteEnv
           /\ localEnv[name] # remoteEnv[name]

\* C21: when both files were read and parsed, ValidateDeploymentEnv returns
\* a non-nil error exactly if the two maps differ (a key on one side only,
\* or a key with different values), and nil exactly if they are equal.
C21_FailsIffEnvsDiffer ==
    (validateRet # NotReturned /\ envErr = Nil) =>
        /\ validateRet # Nil <=> EnvsDiffer
        /\ validateRet = Nil <=> localEnv = remoteEnv

C21_Witness ==
    /\ validateRet \notin {NotReturned, Nil}
    /\ envErr = Nil
    /\ DOMAIN localEnv # DOMAIN remoteEnv
    /\ DOMAIN localEnv \subseteq DOMAIN remoteEnv
    /\ \A name \in DOMAIN localEnv : localEnv[name] = remoteEnv[name]

\* C22: the outcome channel is used produce-all, then close, then drain: it
\* is closed only after every unit has sent and returned (2N sends), no unit
\* sends on it once it is closed, nothing is read from it before it is closed,
\* and the drain reads exactly 2N records.
C22_ProduceCloseDrain ==
    /\ closed =>
           /\ \A i \in Services : startPc[i] = "done" /\ stopPc[i] = "done"
           /\ Len(notifyErr) + Len(drained) = 2 * N
    /\ Alive
    /\ ~closed => drained = <<>>
    /\ ReasonComputed => closed /\ Len(drained) = 2 * N /\ notifyErr = <<>>

C22_Witness ==
    /\ ReasonComputed
    /\ N = 2
    /\ closed
    /\ Len(drained) = 4

\* C23: the Stop of a service is never invoked before the Start of that same
\* service has been invoked.
C23_StopAfterOwnStart ==
    \A i \in Services : stopCalls[i] > 0 => startCalls[i] > 0

\* C24: WrapServices returns nil on every path: whatever the Start and Stop
\* errors, the group's first error and the caught signal are, the only value
\* it ever returns is nil.
C24_NilOnEveryPath ==
    /\ ret \in {NotReturned, Nil}
    /\ Returned <=> ret = Nil

C24_Witness ==
    /\ Returned
    /\ ret = Nil
    /\ firstErr \notin {Nil, errDone}
    /\ StopErrors # {}
    /\ caughtSignal # NoSignal

\* C25: if svcGroupCtx was cancelled by a unit's return while no signal had
\* been received, the reason is never a caught-signal message, and with the
\* flag set the sink is notified, even if a signal arrives afterwards (in
\* the runs of LateSpec every signal arrives afterwards).
C25_LateSignalIgnored ==
    /\ (ReasonComputed /\ trigger = "service") => ~IsSignalReason(reason)
    /\ (NotifyPassed /\ trigger = "service" /\ shouldNotify) => SinkInvoked

\* C26: there is no data race on caughtSignal: once the listener has written
\* it and the main goroutine has read it, the write is ordered before the
\* reads.
C26_WriteOrderedBeforeReads ==
    (caughtSignal # NoSignal /\ ReasonComputed) => WriteOrderedBeforeReads

\* C27: the outcome channel never holds more than 2N records, and a unit
\* that is about to send always finds a free slot, although nothing is read
\* before the join.
C27_SendNeverBlocks ==
    /\ Len(notifyErr) <= 2 * N
    /\ \A i \in Services :
           /\ startPc[i] = "returned" =>
                  Len(notifyErr) < NotifyErrCap /\ ENABLED StartSend(i)
           /\ stopPc[i] = "returned" =>
                  Len(notifyErr) < NotifyErrCap /\ ENABLED StopSend(i)

C27_Witness ==
    /\ N = 2
    /\ mainPc = "waiting"
    /\ Len(notifyErr) = 3
    /\ \E i \in Services : stopPc[i] = "returned"

\* deploy has returned
deployReturned == deployPc \in {"deployed", "returned"}

\* the commands that failed, as positions in commands
FailedCommands == {k \in 1..Len(ran) : ran[k].failed}

\* C28: deploy runs the commands strictly in list order and stops at the
\* first failing command that cannot be ignored: nothing is run after it and
\* the returned error names it. A failing shell command with IgnoreFailed is
\* passed over, a failing Func command stops the run even with IgnoreFailed.
C28_InOrderUntilFirstFailure ==
    /\ Len(ran) <= Len(commands)
    /\ \A k \in 1..Len(ran) :
           /\ ran[k].index = k
           /\ ran[k].Name = commands[k].Name
    /\ \A k \in FailedCommands :
           IF commands[k].Func \/ ~commands[k].IgnoreFailed
              THEN /\ k = Len(ran)
                   /\ deployReturned
                   /\ deployErr = "failed to run " \o commands[k].Name \o ": "
                          \o (IF commands[k].Func THEN FuncError
                                                  ELSE ShellError)
              ELSE (k = Len(ran) /\ deployReturned) => deployErr = Nil
    /\ (deployReturned /\ deployErr = Nil) =>
           /\ Len(ran) = Len(commands)
           /\ \A k \in FailedCommands :
                  ~commands[k].Func /\ commands[k].IgnoreFailed
    /\ (deployReturned /\ deployErr # Nil) =>
           Len(ran) \in FailedCommands

C28_Witness ==
    /\ deployReturned
    /\ deployErr # Nil
    /\ Len(ran) = 2
    /\ ran[1].failed /\ ~commands[1].Func /\ commands[1].IgnoreFailed
    /\ ran[2].failed /\ commands[2].Func /\ commands[2].IgnoreFailed
    /\ Len(commands) > 2

\* at most one callback per call; cfg.Error only after a failed command and
\* with the error of deploy; the value returned is the callback's
C29_OneCallback ==
    /\ Len(successCalls) + Len(errorCalls) <= 1
    /\ errorCalls # <<>> =>
           /\ FailedCommands # {}
           /\ deployErr # Nil
           /\ errorCalls[1].err = deployErr
           /\ deployRet = errorCalls[1].ret
    /\ successCalls # <<>> => deployRet = successCalls[1].ret
    /\ deployPc = "returned" =>
           /\ (deployErr # Nil /\ cfg.Error) => Len(errorCalls) = 1
           /\ (deployErr = Nil /\ cfg.Success) => Len(successCalls) = 1
           /\ (errorCalls = <<>> /\ successCalls = <<>>) =>
                  deployRet = deployErr

\* C29, as stated: Deploy invokes at most one of cfg.Success and cfg.Error,
\* cfg.Error (with the error of deploy) only if a command failed, cfg.Success
\* only if all commands succeeded, and it returns the callback's result.
C29_SuccessOnlyIfAllSucceeded ==
    /\ C29_OneCallback
    /\ successCalls # <<>> =>
           /\ Len(ran) = Len(commands)
           /\ FailedCommands = {}

\* C29, amended: as above, but cfg.Success is invoked only if deploy returned
\* nil, that is, if every command was run and each one succeeded or was a
\* shell command with IgnoreFailed.
C29_SuccessOnlyIfDeployed ==
    /\ C29_OneCallback
    /\ successCalls # <<>> =>
           /\ deployErr = Nil
           /\ Len(ran) = Len(commands)
           /\ \A k \in FailedCommands :
                  ~commands[k].Func /\ commands[k].IgnoreFailed

C29_Witness ==
    /\ deployPc = "returned"
    /\ deployErr # Nil
    /\ cfg.Success
    /\ errorCalls # <<>>
    /\ errorCalls[1].ret = Nil
    /\ deployRet = Nil

\* C30: when WrapServices has returned, the signal-listener goroutine has
\* terminated: it is not left blocked receiving from sigs.
C30_ListenerTerminated ==
    Returned => listenerPc = "done"

=============================================================================
